---- MODULE Spec2Model ----
(***************************************************************************)
(* FYPLACE place-retrieval engine: the search response cache and its key   *)
(* (backend/app/api/routes.py), the Overpass mirror fetcher and the        *)
(* per-category fan-out (backend/app/services/overpass.py).                *)
(*                                                                         *)
(* The module holds several specifications over one set of variables; each *)
(* specification drives one group of variables and leaves the others at    *)
(* their initial value:                                                    *)
(*   SpecKey      _make_cache_key on pairs of requests                     *)
(*   SpecCache    _get_cached_response / _store_cached_response and time   *)
(*   SpecCacheOff _store_cached_response with ttl <= 0                     *)
(*   SpecIso      the cache with its lists and records as heap objects     *)
(*   SpecOverpass call_overpass, attempt by attempt                        *)
(*   SpecFetch    fetch_places: the futures and the as_completed loop      *)
(*   SpecSearch   _perform_search: cache, live fetch and fallback data     *)
(*   SpecDedupe   dedupe on bounded record lists                           *)
(*   SpecFilter   the distance filter of fetch_places                      *)
(*   SpecCrawl    try_discover_email_from_site and the enrichment step     *)
(*   SpecEnrich   the enrichment pass of fetch_places and its two flags    *)
(*   SpecMock     load_mock_places called from several threads             *)
(*   SpecLock     the cache calls of several threads, step by step         *)
(***************************************************************************)
EXTENDS Integers, Sequences, FiniteSets, TLC

None == "None"

\* ------------------------------------------------------------------ bounds
\* Coordinates are integers in units of 10^-6 degree, in -MaxCoord..MaxCoord.
MaxCoord == 7
\* SpecMock: 1..MaxThreads request threads call load_mock_places.
MaxThreads == 2
\* SpecLock: the threads make MaxCalls cache calls between them.
MaxCalls == 3
\* SpecFilter: the distance filter is given lists of up to MaxFilterLen
\* records.
MaxFilterLen == 3
\* SpecEnrich: the enrichment pass is given lists of up to MaxEnrichLen
\* records.
MaxEnrichLen == 3
\* SpecDedupe: dedupe is given lists of up to MaxDedupeLen records.
MaxDedupeLen == 3
\* Longest category list of a request in SpecKey.
MaxCatLen == 2
\* SpecCache: the clock runs from 0 to MaxTime seconds.
MaxTime == 2
\* SpecCache: search_cache_ttl_seconds is drawn from 0..MaxTtl.
MaxTtl == 1
\* SpecCache: search_cache_max_entries is drawn from 1..MaxEntries.
MaxEntries == 2
\* SpecIso: the heap holds at most MaxObjs list and record objects.
MaxObjs == 6
\* SpecIso: a result list built by a caller holds 1..MaxRecs records.
MaxRecs == 1
\* SpecIso: callers hold at most MaxHeld result lists at a time.
MaxHeld == 2
\* SpecOverpass: len(settings.overpass_urls) is drawn from 1..MaxMirrors.
MaxMirrors == 2
\* SpecOverpass: settings.overpass_retry_attempts is drawn from 1..MaxRetry.
MaxRetry == 4
\* SpecFetch: settings.max_parallel_category_requests is drawn from
\* 1..MaxParallel.
MaxParallel == 2

\* ------------------------------------------------------------- categories
\* The keys of DEFAULT_CATEGORIES, in the order Python's sorted() gives them.
CategoryNames == <<"college", "hospital", "hotel", "school">>

\* Position of a category name in the lexicographic order of str.
CatRank(c) == CHOOSE i \in 1..Len(CategoryNames) : CategoryNames[i] = c

\* The categories the requests of SpecKey are drawn from.
KeyCategories == {"hotel", "school"}

VARIABLES
    tieUp,      \* SpecKey: for a coordinate exactly half-way between two
                \* 5-decimal values, whether its binary float lies above the
                \* half-way point (round() then rounds it up)
    reqs,       \* SpecKey: the pair of requests whose keys are compared
    keys,       \* SpecKey: their cache keys, None before _make_cache_key ran
    cache,      \* _SEARCH_CACHE: the OrderedDict as the sequence of its
                \* entries [key, label, results, expires_at], oldest first
    now,        \* the value time() returns, in seconds
    ttl_seconds,    \* settings.search_cache_ttl_seconds
    max_entries,    \* settings.search_cache_max_entries
    lastOp,     \* the last cache call, with what it returned and removed
    recency,    \* the cached keys by their last get-hit or put, oldest first
    heap,       \* SpecIso: the list and dict objects, by object identity
    held,       \* SpecIso: the result lists callers hold a reference to
    stored,     \* SpecIso: per key, the value of the list at its last put
    overpass_urls,  \* len(settings.overpass_urls): the mirrors are 1..n
    overpass_retry_attempts,    \* settings.overpass_retry_attempts
    ov,         \* call_overpass: where it is (pc, url index, attempt),
                \* last_err, and what it returned or raised
    ovLog,      \* the outcomes of the attempts on the current mirror
    ovLastFailure,  \* the kind of the last attempt that failed, None if none
    ovRequests, \* the number of requests.post calls made
    max_parallel,   \* settings.max_parallel_category_requests
    enrich,     \* fetch_places: enable_email_discovery and
                \* settings.enable_website_email_discovery
    fp,         \* fetch_places: its categories, the as_completed loop's
                \* records and first_error, what it returned or raised
    tasks,      \* the futures of _fetch_category, one per category
    mock_places,    \* what load_mock_places returns: the fallback dataset
    resp,       \* _perform_search: what the last search returned or raised,
                \* with the outcomes of its category fetches
    arg,        \* the argument of the function a specification applies
    ret,        \* whether the function has returned, and its value
    mock_file,  \* what settings.mock_places_path leads to on disk
    mock_cache, \* _MOCK_CACHE: whether it is set (is not None), and to what
    loaders,    \* the calls of load_mock_places, one per request thread:
                \* where each is and what it returned
    disk_reads, \* how often the dataset file has been opened and read
    cache_lock, \* _SEARCH_CACHE_LOCK: the thread that holds it, 0 if none
    callers,    \* SpecLock: the cache call each request thread is in, with
                \* its key and the value of time() it read
    cache_calls \* SpecLock: the number of cache calls made so far

keyVars == <<tieUp, reqs, keys>>
cacheVars == <<cache, now, ttl_seconds, max_entries, lastOp, recency>>
isoVars == <<heap, held, stored>>
ovVars == <<overpass_urls, overpass_retry_attempts, ov, ovLog, ovLastFailure,
            ovRequests>>

fetchVars == <<max_parallel, enrich, fp, tasks>>

searchVars == <<mock_places, resp>>

pureVars == <<arg, ret>>

mockVars == <<mock_file, mock_cache, loaders, disk_reads>>

lockVars == <<cache_lock, callers, cache_calls>>

vars ==
    <<keyVars, cacheVars, isoVars, ovVars, fetchVars, searchVars, pureVars,
      mockVars, lockVars>>

\* What the actions of each specification leave alone.
keyFrame ==
    <<cacheVars, isoVars, ovVars, fetchVars, searchVars, pureVars, mockVars,
      lockVars>>
cacheFrame ==
    <<keyVars, isoVars, ovVars, fetchVars, searchVars, pureVars, mockVars,
      lockVars>>
isoFrame ==
    <<keyVars, now, ttl_seconds, max_entries, recency, ovVars, fetchVars,
      searchVars, pureVars, mockVars, lockVars>>
ovFrame ==
    <<keyVars, cacheVars, isoVars, fetchVars, searchVars, pureVars, mockVars,
      lockVars>>
fetchFrame ==
    <<keyVars, cacheVars, isoVars, ovVars, searchVars, pureVars, mockVars,
      lockVars>>
searchFrame ==
    <<keyVars, lastOp, recency, isoVars, ovVars, fetchVars, pureVars,
      mockVars, lockVars>>
pureFrame ==
    <<keyVars, cacheVars, isoVars, ovVars, fetchVars, searchVars, mockVars,
      lockVars>>
mockFrame ==
    <<keyVars, cacheVars, isoVars, ovVars, fetchVars, searchVars, pureVars,
      lockVars>>
lockFrame ==
    <<keyVars, lastOp, recency, isoVars, ovVars, fetchVars, searchVars,
      pureVars, mockVars>>

\* ------------------------------------------- the groups before any call
\* Each specification starts the variables it does not drive at these values
\* and never changes them.
NoOp ==
    [op |-> "init", key |-> 0, hit |-> FALSE, label |-> None,
     results |-> None, expired |-> FALSE, evicted |-> <<>>]

NoCall ==
    [pc |-> "idle", url |-> 0, attempt |-> 0, last_err |-> None,
     result |-> None, raised |-> None]

OvIdle ==
    /\ overpass_urls = 0
    /\ overpass_retry_attempts = 0
    /\ ov = NoCall
    /\ ovLog = <<>>
    /\ ovLastFailure = None
    /\ ovRequests = 0

NoFetch ==
    [pc |-> "idle", categories |-> <<>>, max_workers |-> 0, records |-> <<>>,
     first_error |-> None, yielded |-> {}, ret |-> None, raised |-> None]

FetchIdle ==
    /\ max_parallel = 0
    /\ enrich = FALSE
    /\ fp = NoFetch
    /\ tasks = <<>>

KeyIdle ==
    /\ tieUp = <<>>
    /\ reqs = None
    /\ keys = None

CacheIdle ==
    /\ cache = <<>>
    /\ now = 0
    /\ lastOp = NoOp
    /\ recency = <<>>

CacheOff ==
    /\ CacheIdle
    /\ ttl_seconds = 0
    /\ max_entries = 1

IsoIdle ==
    /\ heap = <<>>
    /\ held = {}
    /\ stored = <<>>

NoResp ==
    [status |-> 0, label |-> None, categories |-> <<>>, results |-> <<>>,
     origin |-> None, failed |-> FALSE, outcomes |-> <<>>]

SearchIdle ==
    /\ mock_places = <<>>
    /\ resp = NoResp

NoRet == [done |-> FALSE, value |-> <<>>]

PureIdle ==
    /\ arg = <<>>
    /\ ret = NoRet

NotLoaded == [loaded |-> FALSE, data |-> <<>>]

MockIdle ==
    /\ mock_file = "nopath"
    /\ mock_cache = NotLoaded
    /\ loaders = <<>>
    /\ disk_reads = 0

LockIdle ==
    /\ cache_lock = 0
    /\ callers = <<>>
    /\ cache_calls = 0

KeyRest ==
    /\ CacheOff /\ IsoIdle /\ OvIdle /\ FetchIdle /\ SearchIdle
    /\ PureIdle /\ MockIdle /\ LockIdle
CacheRest ==
    /\ KeyIdle /\ IsoIdle /\ OvIdle /\ FetchIdle /\ SearchIdle
    /\ PureIdle /\ MockIdle /\ LockIdle
IsoRest ==
    /\ KeyIdle /\ OvIdle /\ FetchIdle /\ SearchIdle
    /\ PureIdle /\ MockIdle /\ LockIdle
OvRest ==
    /\ KeyIdle /\ CacheOff /\ IsoIdle /\ FetchIdle /\ SearchIdle
    /\ PureIdle /\ MockIdle /\ LockIdle
FetchRest ==
    /\ KeyIdle /\ CacheOff /\ IsoIdle /\ OvIdle /\ SearchIdle
    /\ PureIdle /\ MockIdle /\ LockIdle
SearchRest ==
    /\ KeyIdle /\ IsoIdle /\ OvIdle /\ FetchIdle
    /\ PureIdle /\ MockIdle /\ LockIdle
PureRest ==
    /\ KeyIdle /\ CacheOff /\ IsoIdle /\ OvIdle /\ FetchIdle /\ SearchIdle
    /\ MockIdle /\ LockIdle
MockRest ==
    /\ KeyIdle /\ CacheOff /\ IsoIdle /\ OvIdle /\ FetchIdle /\ SearchIdle
    /\ PureIdle /\ LockIdle
LockRest ==
    /\ KeyIdle /\ IsoIdle /\ OvIdle /\ FetchIdle /\ SearchIdle
    /\ PureIdle /\ MockIdle

\* ------------------------------------------------------- _make_cache_key
\* Insert a category into a sorted list, after its equals (sorted() is stable).
RECURSIVE InsertSorted(_, _)
InsertSorted(c, s) ==
    IF s = <<>> THEN <<c>>
    ELSE IF CatRank(c) < CatRank(Head(s)) THEN <<c>> \o s
    ELSE <<Head(s)>> \o InsertSorted(c, Tail(s))

RECURSIVE SortedCats(_)
SortedCatsUnsorted(cs) == cs
\* tuple(sorted(categories)): every element kept, duplicates included.
SortedCats(cs) ==
    IF cs = <<>> THEN <<>>
    ELSE InsertSorted(cs[Len(cs)], SortedCats(SubSeq(cs, 1, Len(cs) - 1)))

Round5Exact(x) == x
\* round(x, 5) of a coordinate x given in units of 10^-6: the nearest multiple
\* of 10^-5, in units of 10^-5.  A decimal half-way case is decided by the
\* binary value of the float, which tieUp records.
Round5(x) ==
    LET lo == x \div 10
        rem == x % 10
    IN  IF rem < 5 THEN lo
        ELSE IF rem > 5 THEN lo + 1
        ELSE IF tieUp[x] THEN lo + 1 ELSE lo

\* _make_cache_key(lat, lon, radius_m, categories, with_email)
MakeCacheKey(lat, lon, radius_m, categories, with_email) ==
    <<Round5(lat), Round5(lon), radius_m, SortedCats(categories), with_email>>

KeyOf(r) == MakeCacheKey(r.lat, r.lon, r.radius_m, r.categories, r.with_email)

\* ------------------------------------------------------- the search cache
Miss == "miss"

RECURSIVE IndexOf(_, _)
\* The position of key's entry in the OrderedDict, 0 if it has none.
IndexOf(c, key) ==
    IF c = <<>> THEN 0
    ELSE IF c[Len(c)].key = key THEN Len(c)
    ELSE IndexOf(SubSeq(c, 1, Len(c) - 1), key)

HasKey(c, key) == IndexOf(c, key) # 0
EntryOf(c, key) == c[IndexOf(c, key)]
KeysOf(c) == {c[i].key : i \in 1..Len(c)}

\* del _SEARCH_CACHE[key]
DeleteKey(c, key) == SelectSeq(c, LAMBDA e : e.key # key)

MoveToEndNot(c, key) == c
\* _SEARCH_CACHE.move_to_end(key)
MoveToEnd(c, key) ==
    IF HasKey(c, key) THEN Append(DeleteKey(c, key), EntryOf(c, key)) ELSE c

\* _SEARCH_CACHE[key] = payload: a present key keeps its position.
Assign(c, entry) ==
    IF HasKey(c, entry.key)
    THEN [c EXCEPT ![IndexOf(c, entry.key)] = entry]
    ELSE Append(c, entry)

IsExpiredNever(entry, t) == FALSE
\* isinstance(expires_at, (int, float)) and expires_at < now
IsExpired(entry, t) == entry.expires_at < t

RECURSIVE PopWhileOver(_, _)
RECURSIVE PopNewestWhileOver(_, _)
PopNewestWhileOver(c, max) ==
    IF Len(c) > max THEN PopNewestWhileOver(SubSeq(c, 1, Len(c) - 1), max) ELSE c
\* while len(_SEARCH_CACHE) > max_entries: _SEARCH_CACHE.popitem(last=False)
PopWhileOver(c, max) ==
    IF Len(c) > max THEN PopWhileOver(Tail(c), max) ELSE c

GetCachedResponseMiss(c, key, t) ==
    [cache |-> c, hit |-> FALSE, label |-> None, results |-> None,
     expired |-> FALSE]
\* _get_cached_response(key) at time t: the cache it leaves and what it
\* returns (hit = FALSE stands for None).
GetCachedResponse(c, key, t) ==
    IF ~HasKey(c, key)
    THEN [cache |-> c, hit |-> FALSE, label |-> None, results |-> None,
          expired |-> FALSE]
    ELSE IF IsExpired(EntryOf(c, key), t)
    THEN [cache |-> DeleteKey(c, key), hit |-> FALSE, label |-> None,
          results |-> None, expired |-> TRUE]
    ELSE [cache |-> MoveToEnd(c, key), hit |-> TRUE,
          label |-> EntryOf(c, key).label,
          results |-> EntryOf(c, key).results, expired |-> FALSE]

StoreCachedResponseAnyTtl(c, key, label, results, ttl, max, t) ==
    LET payload == [key |-> key, label |-> label, results |-> results,
                    expires_at |-> t + ttl]
    IN  PopWhileOver(MoveToEnd(Assign(c, payload), key), max)
\* _store_cached_response(key, label, results, ttl, max) at time t.
StoreCachedResponse(c, key, label, results, ttl, max, t) ==
    IF ttl <= 0 THEN c
    ELSE LET payload == [key |-> key, label |-> label, results |-> results,
                         expires_at |-> t + ttl]
         IN  PopWhileOver(MoveToEnd(Assign(c, payload), key), max)

\* -------------------------------------------------------------- SpecCache
\* One key more than the largest cache holds, so that a full cache can be
\* offered a further key.
CacheKeys == 1..(MaxEntries + 1)
Labels == {"Davis"}
ResultVals == {"r1", "r2"}

\* The keys of s without key, in their order.
Without(s, key) == SelectSeq(s, LAMBDA k : k # key)

\* ---------------------------------------------------------- call_overpass
\* What one requests.post attempt can come to: a well-formed body, a 429, or
\* an exception (from requests.post, raise_for_status or resp.json).
Exceptions == {"network", "status", "malformed"}
Outcomes == {"ok", "429"} \cup Exceptions

\* The two for loops: the next attempt on this mirror, else the first attempt
\* on the next mirror, else (both loops over) the raise of line 89.
NextAttemptGiveUp(f, urls, retries) ==
    [f EXCEPT !.pc = "raised", !.raised = f.last_err]
NextAttemptNextMirror(f, urls, retries) ==
    IF f.url < urls THEN [f EXCEPT !.url = @ + 1, !.attempt = 1]
    ELSE [f EXCEPT !.pc = "raised", !.raised = f.last_err]
NextAttempt(f, urls, retries) ==
    IF f.attempt < retries THEN [f EXCEPT !.attempt = @ + 1]
    ELSE IF f.url < urls THEN [f EXCEPT !.url = @ + 1, !.attempt = 1]
    ELSE [f EXCEPT !.pc = "raised", !.raised = f.last_err]

\* One pass of the loop body with the given outcome of requests.post.
AttemptStep(f, outcome, urls, retries) ==
    IF outcome = "ok"
    THEN [f EXCEPT !.pc = "returned",
                   !.result = <<"response", f.url, f.attempt>>]
    ELSE IF outcome = "429"
    THEN NextAttempt(f, urls, retries)
    ELSE NextAttempt([f EXCEPT !.last_err = outcome], urls, retries)

CacheInit ==
    /\ CacheIdle
    /\ ttl_seconds \in 0..MaxTtl
    /\ max_entries \in 1..MaxEntries
    /\ CacheRest

\* A second passes.
Tick ==
    /\ now < MaxTime
    /\ now' = now + 1
    /\ lastOp' = [NoOp EXCEPT !.op = "tick"]
    /\ UNCHANGED <<cache, ttl_seconds, max_entries, recency>>
    /\ UNCHANGED cacheFrame

\* A caller reads key.
Get(key) ==
    LET r == GetCachedResponse(cache, key, now)
    IN  /\ cache' = r.cache
        /\ lastOp' = [NoOp EXCEPT !.op = "get", !.key = key, !.hit = r.hit,
                      !.label = r.label, !.results = r.results,
                      !.expired = r.expired]
        /\ recency' = IF r.hit THEN Append(Without(recency, key), key)
                      ELSE IF r.expired THEN Without(recency, key)
                      ELSE recency
        /\ UNCHANGED <<now, ttl_seconds, max_entries>>
        /\ UNCHANGED cacheFrame

\* A caller stores (label, results) under key with the configured limits.
Store(key, label, results) ==
    LET c == StoreCachedResponse(cache, key, label, results,
                                 ttl_seconds, max_entries, now)
    IN  /\ cache' = c
        /\ lastOp' = [NoOp EXCEPT !.op = "store", !.key = key,
                      !.label = label, !.results = results,
                      !.evicted = SelectSeq(cache,
                          LAMBDA e : e.key # key /\ e.key \notin KeysOf(c))]
        /\ recency' = IF ttl_seconds <= 0 THEN recency
                      ELSE SelectSeq(Append(Without(recency, key), key),
                                     LAMBDA k : k \in KeysOf(c))
        /\ UNCHANGED <<now, ttl_seconds, max_entries>>
        /\ UNCHANGED cacheFrame

\* A caller stores (label, results) under key with a ttl that is not
\* positive.
StoreOff(key, label, results, ttl) ==
    /\ cache' = StoreCachedResponse(cache, key, label, results, ttl,
                                    max_entries, now)
    /\ lastOp' = [NoOp EXCEPT !.op = "store_off", !.key = key]
    /\ UNCHANGED <<now, ttl_seconds, max_entries, recency>>
    /\ UNCHANGED cacheFrame

GetAny == \E key \in CacheKeys : Get(key)
StoreAny ==
    \E key \in CacheKeys, label \in Labels, results \in ResultVals :
        Store(key, label, results)

CacheNext == Tick \/ GetAny \/ StoreAny

SpecCache == CacheInit /\ [][CacheNext]_vars

\* ----------------------------------------------------------- SpecCacheOff
\* _store_cached_response called with a ttl that is not positive, on the
\* caches earlier puts can have left: up to max_entries entries of distinct
\* keys, each with a payload and an expiry time.
CacheEntries ==
    [key : CacheKeys, label : Labels, results : ResultVals,
     expires_at : 1..(MaxTime + MaxTtl)]
CachesUpTo(n) ==
    {c \in UNION {[1..k -> CacheEntries] : k \in 0..n} :
        \A i, j \in 1..Len(c) : c[i].key = c[j].key => i = j}

CacheOffInit ==
    /\ max_entries \in 1..MaxEntries
    /\ cache \in CachesUpTo(max_entries)
    /\ now \in 0..MaxTime
    /\ ttl_seconds = 0
    /\ lastOp = NoOp
    /\ recency = [i \in 1..Len(cache) |-> cache[i].key]
    /\ CacheRest

\* One such call is made on each of the caches.
StoreOffAny ==
    \E key \in CacheKeys, label \in Labels, results \in ResultVals,
       ttl \in {0, 0 - 1} :
        /\ lastOp.op = "init"
        /\ StoreOff(key, label, results, ttl)

CacheOffNext == StoreOffAny

SpecCacheOff == CacheOffInit /\ [][CacheOffNext]_vars

\* ---------------------------------------------------------------- SpecKey
Coords == (0 - MaxCoord)..MaxCoord
\* Longitudes are drawn from a few values on both sides of a rounding boundary.
LonCoords == {0, 4, 6}
TieCoords == {x \in Coords : x % 10 = 5}
CatLists == UNION {[1..n -> KeyCategories] : n \in 0..MaxCatLen}
\* int(request.radius_km * 1000) of the default radius_km of 5.0
Radii == {5000}

Requests ==
    [lat : Coords, lon : LonCoords, radius_m : Radii, categories : CatLists,
     with_email : BOOLEAN]

\* The second request differs from the first in its coordinates or in its
\* category list.
KeyInit ==
    /\ tieUp \in [TieCoords -> BOOLEAN]
    /\ \E a \in Requests :
          \/ \E la \in Coords, lo \in LonCoords :
                reqs = <<a, [a EXCEPT !.lat = la, !.lon = lo]>>
          \/ \E cs \in CatLists :
                reqs = <<a, [a EXCEPT !.categories = cs]>>
    /\ keys = None
    /\ KeyRest

\* Both requests are normalised into their keys.
MakeKeys ==
    /\ keys = None
    /\ keys' = <<KeyOf(reqs[1]), KeyOf(reqs[2])>>
    /\ UNCHANGED <<tieUp, reqs>>
    /\ UNCHANGED keyFrame

KeyNext == MakeKeys

SpecKey == KeyInit /\ [][KeyNext]_vars

\* ---------------------------------------------------------------- SpecIso
\* copy.deepcopy on the object graph: a result list is a list object whose
\* items are dict objects; a dict's fields are immutable values (email, the
\* field enrichment writes, stands for them).
ObjIds == 1..MaxObjs
FreeObj == [kind |-> "free", items |-> <<>>, email |-> None]

FreeIds(h) == {i \in ObjIds : h[i].kind = "free"}
MinFree(h) == CHOOSE i \in FreeIds(h) : \A j \in FreeIds(h) : i <= j

RECURSIVE CopyRecs(_, _)
\* A new dict object for each item, with the item's fields.
CopyRecs(h, items) ==
    IF items = <<>> THEN [heap |-> h, items |-> <<>>]
    ELSE LET id == MinFree(h)
             rest == CopyRecs([h EXCEPT ![id] = h[Head(items)]], Tail(items))
         IN  [heap |-> rest.heap, items |-> <<id>> \o rest.items]

\* list(x): a new list object holding the same dict objects.
ShallowCopy(h, ref) ==
    LET id == MinFree(h)
    IN  [heap |-> [h EXCEPT ![id] = h[ref]], ref |-> id]

\* copy.deepcopy(x): a new list object holding new dict objects.
DeepCopy(h, ref) ==
    LET r == CopyRecs(h, h[ref].items)
        id == MinFree(r.heap)
    IN  [heap |-> [r.heap EXCEPT ![id] = [h[ref] EXCEPT !.items = r.items]],
         ref |-> id]

\* The value of a list: the fields of its records, in order.
ValueOf(h, ref) == [i \in 1..Len(h[ref].items) |-> h[h[ref].items[i]].email]
\* The objects a list reference reaches: the list and its records.
Reach(h, ref) == {ref} \cup {h[ref].items[i] : i \in 1..Len(h[ref].items)}

IsoKeys == {1}

\* The default settings: search_cache_ttl_seconds and
\* search_cache_max_entries.
DefaultTtl == 120
DefaultMaxEntries == 128

\* Reference counting: an object no cache entry and no caller reaches is
\* freed.
FreeUnreached(h, c, hl) ==
    LET live == UNION ({Reach(h, c[i].results) : i \in 1..Len(c)}
                       \cup {Reach(h, x.ref) : x \in hl})
    IN  [i \in ObjIds |-> IF i \in live THEN h[i] ELSE FreeObj]

IsoInit ==
    /\ heap = [i \in ObjIds |-> FreeObj]
    /\ held = {}
    /\ stored = <<>>
    /\ cache = <<>>
    /\ now = 0
    /\ lastOp = NoOp
    /\ recency = <<>>
    /\ ttl_seconds = DefaultTtl
    /\ max_entries = DefaultMaxEntries
    /\ IsoRest

\* A caller builds a result list of n records (fetch_places returns one).
IsoNew(n) ==
    /\ Cardinality(held) < MaxHeld
    /\ Cardinality(FreeIds(heap)) >= n + 1
    /\ LET rec == [kind |-> "rec", items |-> <<>>, email |-> None]
           ids == CHOOSE q \in [1..n -> FreeIds(heap)] :
                    /\ \A i \in 1..n : \A j \in 1..n : i < j => q[i] < q[j]
                    /\ \A i \in 1..n : \A f \in FreeIds(heap) :
                          f < q[i] => \E j \in 1..n : q[j] = f
           h1 == [i \in ObjIds |->
                    IF \E j \in 1..n : ids[j] = i THEN rec ELSE heap[i]]
           id == MinFree(h1)
       IN  /\ heap' = [h1 EXCEPT ![id] =
                        [kind |-> "list", items |-> ids, email |-> None]]
           /\ held' = held \cup {[ref |-> id, src |-> "caller", key |-> 0]}
    /\ lastOp' = [NoOp EXCEPT !.op = "new"]
    /\ UNCHANGED <<cache, stored>>
    /\ UNCHANGED isoFrame

\* _store_cached_response(key, label, x, ...): the entry holds a deep copy of
\* the caller's list x.
IsoPut(key, x) ==
    /\ Cardinality(FreeIds(heap)) >= Len(heap[x.ref].items) + 1
    /\ LET cp == DeepCopy(heap, x.ref)
           c == StoreCachedResponse(cache, key, "Davis", cp.ref,
                                    ttl_seconds, max_entries, now)
       IN  /\ cache' = c
           /\ heap' = FreeUnreached(cp.heap, c, held)
    /\ stored' = (key :> ValueOf(heap, x.ref)) @@ stored
    /\ lastOp' = [NoOp EXCEPT !.op = "put", !.key = key]
    /\ UNCHANGED held
    /\ UNCHANGED isoFrame

\* _get_cached_response(key): a hit returns a deep copy of the entry's list.
IsoGet(key) ==
    LET r == GetCachedResponse(cache, key, now)
    IN  /\ cache' = r.cache
        /\ IF r.hit
           THEN /\ Cardinality(held) < MaxHeld
                /\ Cardinality(FreeIds(heap)) >= Len(heap[r.results].items) + 1
                /\ LET cp == DeepCopy(heap, r.results)
                   IN  /\ heap' = cp.heap
                       /\ held' = held \cup
                              {[ref |-> cp.ref, src |-> "get", key |-> key]}
                       /\ lastOp' = [NoOp EXCEPT !.op = "get", !.key = key,
                              !.hit = TRUE, !.label = r.label,
                              !.results = cp.ref]
           ELSE /\ lastOp' = [NoOp EXCEPT !.op = "get", !.key = key,
                              !.expired = r.expired]
                /\ heap' = FreeUnreached(heap, r.cache, held)
                /\ UNCHANGED held
        /\ UNCHANGED stored
        /\ UNCHANGED isoFrame

\* A caller writes a field of a record of a list it holds (record["email"] =
\* email in the enrichment loop).
IsoSetEmail(x, j) ==
    /\ j \in 1..Len(heap[x.ref].items)
    /\ heap[heap[x.ref].items[j]].email = None
    /\ heap' = [heap EXCEPT ![heap[x.ref].items[j]].email =
                    "info@realsite.org"]
    /\ lastOp' = [NoOp EXCEPT !.op = "mutate"]
    /\ UNCHANGED <<cache, held, stored>>
    /\ UNCHANGED isoFrame

\* A caller removes the last record of a list it holds.
IsoPop(x) ==
    /\ heap[x.ref].items # <<>>
    /\ heap' = FreeUnreached(
            [heap EXCEPT ![x.ref].items = SubSeq(@, 1, Len(@) - 1)],
            cache, held)
    /\ lastOp' = [NoOp EXCEPT !.op = "mutate"]
    /\ UNCHANGED <<cache, held, stored>>
    /\ UNCHANGED isoFrame

\* A caller lets go of a list it holds.
IsoDrop(x) ==
    /\ held' = held \ {x}
    /\ heap' = FreeUnreached(heap, cache, held \ {x})
    /\ lastOp' = [NoOp EXCEPT !.op = "drop"]
    /\ UNCHANGED <<cache, stored>>
    /\ UNCHANGED isoFrame

IsoNewAny == \E n \in 1..MaxRecs : IsoNew(n)
IsoPutAny == \E key \in IsoKeys, x \in held : IsoPut(key, x)
IsoGetAny == \E key \in IsoKeys : IsoGet(key)
IsoSetEmailAny == \E x \in held, j \in 1..MaxRecs : IsoSetEmail(x, j)
IsoPopAny == \E x \in held : IsoPop(x)
IsoDropAny == \E x \in held : IsoDrop(x)

IsoNext ==
    \/ IsoNewAny \/ IsoPutAny \/ IsoGetAny
    \/ IsoSetEmailAny \/ IsoPopAny \/ IsoDropAny

SpecIso == IsoInit /\ [][IsoNext]_vars

\* ----------------------------------------------------------- fetch_places
\* The elements a mirror may return, with their tags resolved: name, the
\* coordinates (units of 10^-7 degree; <<v>> when the element has the
\* coordinate, NoCoord when it has not), the great-circle distance of the
\* coordinates from the query point in metres, email and website.
NoCoord == <<>>
ElemCafe ==
    [osm_id |-> "node/1", name |-> "Alpha", lat |-> <<12>>, lon |-> <<31>>,
     dist |-> 500, email |-> None, website |-> "example.org"]
\* The same place mapped a second time, as an area with its own tags.
ElemCafeWay ==
    [osm_id |-> "way/2", name |-> "Alpha", lat |-> <<12>>, lon |-> <<31>>,
     dist |-> 500, email |-> "desk@alpha.org", website |-> None]
ElemFar ==
    [osm_id |-> "node/3", name |-> "Beta", lat |-> <<108012>>, lon |-> <<31>>,
     dist |-> 5300, email |-> None, website |-> None]
ElemNoName ==
    [osm_id |-> "node/4", name |-> None, lat |-> <<40>>, lon |-> <<50>>,
     dist |-> 300, email |-> None, website |-> None]
\* An area the mirror returned without a centre.
ElemNoCenter ==
    [osm_id |-> "way/5", name |-> "Gamma", lat |-> NoCoord, lon |-> NoCoord,
     dist |-> 0, email |-> None, website |-> None]

\* The bodies a mirror answers a category query with.
Responses ==
    {<<>>, <<ElemCafe>>, <<ElemCafeWay, ElemFar>>,
     <<ElemNoName, ElemNoCenter, ElemCafe>>}

\* radius_m of the searches (the default radius_km of 5.0, in metres), and
\* settings.distance_tolerance_factor in hundredths.
SearchRadiusM == 5000
TolerancePct == 105

\* normalize_record(el, category)
NormalizeRecord(el, category) ==
    [osm_id |-> el.osm_id, category |-> category, name |-> el.name,
     email |-> el.email, website |-> el.website, lat |-> el.lat,
     lon |-> el.lon, dist |-> el.dist]

\* _fetch_category on a well-formed body: the normalised elements that have
\* a name and both coordinates.
CategoryRecords(elements, category) ==
    LET recs == [i \in 1..Len(elements) |->
                    NormalizeRecord(elements[i], category)]
    IN  SelectSeq(recs, LAMBDA r :
            r.name # None /\ r.lat # NoCoord /\ r.lon # NoCoord)

\* round(float(x or 0), 6) of a coordinate in units of 10^-7, in units of
\* 10^-6 (no coordinate of the elements above is a half-way case).
Round6(x) ==
    IF x = NoCoord THEN 0
    ELSE IF x[1] % 10 < 5 THEN x[1] \div 10 ELSE (x[1] \div 10) + 1

DedupeKey(rec) == <<rec.name, Round6(rec.lat), Round6(rec.lon)>>

RECURSIVE DedupeKeepLast(_)
DedupeKeepLast(records) ==
    IF records = <<>> THEN <<>>
    ELSE LET rest == DedupeKeepLast(Tail(records))
         IN  IF \E i \in 1..Len(rest) :
                    DedupeKey(rest[i]) = DedupeKey(Head(records))
             THEN rest
             ELSE <<Head(records)>> \o rest

RECURSIVE Dedupe(_)
\* dedupe(records): the first record of each key, in first-seen order.
Dedupe(records) ==
    IF records = <<>> THEN <<>>
    ELSE LET init == Dedupe(SubSeq(records, 1, Len(records) - 1))
             last == records[Len(records)]
         IN  IF \E i \in 1..Len(init) : DedupeKey(init[i]) = DedupeKey(last)
             THEN init
             ELSE Append(init, last)

WithinToleranceStrict(rec, radius_m, pct) ==
    /\ rec.lat # NoCoord
    /\ rec.lon # NoCoord
    /\ rec.dist * 100 < radius_m * pct
\* The condition of the distance filter, for a tolerance factor of pct
\* hundredths.
WithinTolerance(rec, radius_m, pct) ==
    /\ rec.lat # NoCoord
    /\ rec.lon # NoCoord
    /\ rec.dist * 100 <= radius_m * pct

\* The distance filter of lines 256-263 under the settings.
WithinRadius(rec, radius_m) == WithinTolerance(rec, radius_m, TolerancePct)

\* filtered_records
FilterRecords(records, radius_m, pct) ==
    SelectSeq(records, LAMBDA r : WithinTolerance(r, radius_m, pct))

\* The enrichment loop: a record with a website and no email gets the email
\* found[website] the crawl of its site discovers, if any.
Enrich(records, found) ==
    [i \in 1..Len(records) |->
        IF records[i].email = None /\ records[i].website # None
               /\ found[records[i].website] # None
        THEN [records[i] EXCEPT !.email = found[records[i].website]]
        ELSE records[i]]

\* The categories fetch_places keeps: those DEFAULT_CATEGORIES has.
KnownCategories(categories) ==
    SelectSeq(categories, LAMBDA c :
        \E i \in 1..Len(CategoryNames) : CategoryNames[i] = c)

\* What a finished future holds: the records of its category or an exception.
OkOutcome(recs) == [ok |-> TRUE, records |-> recs, err |-> None]
ErrOutcome(e) == [ok |-> FALSE, records |-> <<>>, err |-> e]
NoOutcome == [ok |-> FALSE, records |-> <<>>, err |-> None]
\* call_overpass raises OverpassError; anything else in _fetch_category (a
\* body that is no JSON object, say) raises another exception.
FetchErrors == {"OverpassError", "AttributeError"}

LoopBodySwallow(st, outcome) ==
    IF outcome.ok THEN [st EXCEPT !.records = @ \o outcome.records] ELSE st
\* One pass of the as_completed loop, for a finished future.
LoopBody(st, outcome) ==
    IF st.first_error # None THEN st
    ELSE IF outcome.ok THEN [st EXCEPT !.records = @ \o outcome.records]
    ELSE [st EXCEPT !.first_error = outcome.err]

\* fetch_places after the loop: the raise, or filter, dedupe and enrichment.
FetchTail(st, radius_m, do_enrich, found) ==
    IF st.first_error # None
    THEN [st EXCEPT !.pc = "done", !.raised = "OverpassError"]
    ELSE LET kept == Dedupe(FilterRecords(st.records, radius_m,
                                          TolerancePct))
         IN  [st EXCEPT !.pc = "done",
                 !.ret = IF do_enrich THEN Enrich(kept, found) ELSE kept]

\* -------------------------------------------------------------- SpecFetch
\* The category lists of the searches: one, two or three categories, lists
\* with a category DEFAULT_CATEGORIES does not have, and a list that names
\* a category twice.
FetchCategoryLists ==
    {<<"school">>, <<"school", "hotel">>, <<"school", "hotel", "hospital">>,
     <<"spa", "school">>, <<"spa">>, <<"school", "school">>}
Websites == {"example.org"}
CrawlResults == [Websites -> {None, "info@realsite.org"}]

Min(a, b) == IF a < b THEN a ELSE b
Running == {i \in 1..Len(tasks) : tasks[i].state = "running"}
Pending == {i \in 1..Len(tasks) : tasks[i].state = "pending"}

\* fetch_places up to the loop: it has returned [] for want of a category,
\* or has submitted one future per category and waits in as_completed.
FetchStart(categories, parallel) ==
    LET cats == KnownCategories(categories)
    IN  IF cats = <<>>
        THEN [NoFetch EXCEPT !.pc = "done", !.ret = <<>>]
        ELSE [NoFetch EXCEPT !.pc = "collect", !.categories = cats,
                  !.max_workers = Min(parallel, Len(cats))]

FetchInit ==
    /\ max_parallel \in 1..MaxParallel
    /\ enrich \in BOOLEAN
    /\ \E cats \in FetchCategoryLists :
          /\ fp = FetchStart(cats, max_parallel)
          /\ tasks = [i \in 1..Len(fp.categories) |->
                        [state |-> "pending", outcome |-> NoOutcome]]
    /\ FetchRest

\* A free worker thread takes the next future from the pool's queue.
TaskStart ==
    /\ Pending # {}
    /\ Cardinality(Running) < fp.max_workers
    /\ LET i == CHOOSE j \in Pending : \A k \in Pending : j <= k
       IN  tasks' = [tasks EXCEPT ![i].state = "running"]
    /\ UNCHANGED <<max_parallel, enrich, fp>>
    /\ UNCHANGED fetchFrame

\* _fetch_category(categories[i]) ends with the given outcome.
TaskFinish(i, outcome) ==
    /\ tasks[i].state = "running"
    /\ tasks' = [tasks EXCEPT ![i].state = "done", ![i].outcome = outcome]
    /\ UNCHANGED <<max_parallel, enrich, fp>>
    /\ UNCHANGED fetchFrame

TaskSucceed ==
    \E i \in 1..Len(tasks), body \in Responses :
        TaskFinish(i, OkOutcome(CategoryRecords(body, fp.categories[i])))
TaskFail ==
    \E i \in 1..Len(tasks), e \in FetchErrors : TaskFinish(i, ErrOutcome(e))

\* as_completed yields a finished future and the loop body runs on it
\* (future.cancel() on a finished future changes nothing).
CollectFuture ==
    /\ fp.pc = "collect"
    /\ \E i \in 1..Len(tasks) :
          /\ tasks[i].state = "done"
          /\ i \notin fp.yielded
          /\ fp' = [LoopBody(fp, tasks[i].outcome) EXCEPT
                        !.yielded = @ \cup {i}]
    /\ UNCHANGED <<max_parallel, enrich, tasks>>
    /\ UNCHANGED fetchFrame

\* Every future has been yielded: the pool shuts down and fetch_places
\* raises or returns.
FetchFinish ==
    /\ fp.pc = "collect"
    /\ fp.yielded = 1..Len(tasks)
    /\ \E found \in CrawlResults :
          fp' = FetchTail(fp, SearchRadiusM, enrich, found)
    /\ UNCHANGED <<max_parallel, enrich, tasks>>
    /\ UNCHANGED fetchFrame

FetchNext ==
    TaskStart \/ TaskSucceed \/ TaskFail \/ CollectFuture \/ FetchFinish

SpecFetch == FetchInit /\ [][FetchNext]_vars

\* -------------------------------------------------------- _perform_search
\* DEFAULT_CATEGORIES.keys(), in the order of the dict.
DefaultCategoryList == <<"school", "college", "hospital", "hotel">>

\* geocode_location(location): the coordinates (units of 10^-6 degree) and
\* label Nominatim has for it; label None stands for GeocodingError.
Geocode(location) ==
    IF location = "Davis"
    THEN [lat |-> 12, lon |-> 31, label |-> "Davis, CA"]
    ELSE [lat |-> 0, lon |-> 0, label |-> None]

\* The records of the fallback file, in the shape of normalised records.
MockSchool ==
    [osm_id |-> "mock/1", category |-> "school", name |-> "Mock School",
     email |-> None, website |-> None, lat |-> <<20>>, lon |-> <<30>>,
     dist |-> 9000]
MockHospital ==
    [osm_id |-> "mock/2", category |-> "hospital", name |-> "Mock Clinic",
     email |-> None, website |-> None, lat |-> <<21>>, lon |-> <<33>>,
     dist |-> 400]

\* A record of the fallback file that has no name.
MockNameless ==
    [osm_id |-> "mock/3", category |-> "school", name |-> None,
     email |-> None, website |-> None, lat |-> <<22>>, lon |-> <<34>>,
     dist |-> 700]

InList(x, s) == \E i \in 1..Len(s) : s[i] = x

GetMockPlacesUnfiltered(data, categories) == data
\* get_mock_places(categories) over the loaded dataset.
GetMockPlaces(data, categories) ==
    IF data = <<>> THEN <<>>
    ELSE IF categories = <<>> THEN data
    ELSE SelectSeq(data, LAMBDA r : InList(r.category, categories))

RECURSIVE RunLoop(_, _, _)
\* The as_completed loop over the futures in the order they are yielded.
RunLoop(st, outcomes, order) ==
    IF order = <<>> THEN st
    ELSE RunLoop(LoopBody(st, outcomes[Head(order)]), outcomes, Tail(order))

\* fetch_places(lat, lon, radius_m, categories, enable_email_discovery) for
\* given outcomes of the category fetches, yielded in the given order.
FetchPlaces(categories, outcomes, order, radius_m, do_enrich, found) ==
    LET st == FetchStart(categories, Len(categories))
    IN  IF st.pc = "done" THEN st
        ELSE FetchTail(RunLoop(st, outcomes, order), radius_m, do_enrich,
                       found)

\* settings.enable_website_email_discovery
EnableWebsiteEmailDiscovery == FALSE

\* _perform_search(request) at time t on cache c: the cache it leaves and
\* the response (status 200) or HTTPException (status 400, 503).
PerformSearch(c, request, outcomes, order, found, data, ttl, max, t) ==
    LET geo == Geocode(request.location)
        categories == IF request.categories = <<>> THEN DefaultCategoryList
                      ELSE request.categories
        key == MakeCacheKey(geo.lat, geo.lon, request.radius_m, categories,
                            request.with_email)
        got == GetCachedResponse(c, key, t)
        fin == FetchPlaces(categories, outcomes, order, request.radius_m,
                   request.with_email /\ EnableWebsiteEmailDiscovery, found)
        fallback == GetMockPlaces(data, categories)
        results == IF fin.raised = None THEN fin.ret ELSE fallback
        answer == [NoResp EXCEPT !.categories = categories]
    IN  IF geo.label = None
        THEN [cache |-> c, resp |-> [NoResp EXCEPT !.status = 400]]
        ELSE IF got.hit
        THEN [cache |-> got.cache,
              resp |-> [answer EXCEPT !.status = 200, !.label = got.label,
                            !.results = got.results, !.origin = "cache"]]
        ELSE IF fin.raised # None /\ results = <<>>
        THEN [cache |-> got.cache,
              resp |-> [answer EXCEPT !.status = 503, !.failed = TRUE,
                            !.outcomes = outcomes]]
        ELSE [cache |-> StoreCachedResponse(got.cache, key, geo.label,
                            results, ttl, max, t),
              resp |-> [answer EXCEPT !.status = 200, !.label = geo.label,
                            !.results = results,
                            !.origin = IF fin.raised = None THEN "live"
                                       ELSE "fallback",
                            !.failed = fin.raised # None,
                            !.outcomes = outcomes]]

\* ------------------------------------------------------------- SpecSearch
Locations == {"Davis", "Atlantis"}
SearchCategoryLists == {<<"school">>, <<"hotel", "school">>}
SearchRequests ==
    [location : Locations, radius_m : {SearchRadiusM},
     categories : SearchCategoryLists, with_email : {FALSE}]
MockDatasets ==
    {<<>>, <<MockHospital>>, <<MockSchool, MockHospital>>,
     <<MockSchool, MockNameless>>}

\* The bodies the mirrors answer the category queries of a search with.
SearchBodies == <<<<>>, <<ElemCafe>>, <<ElemCafeWay, ElemFar>>>>
\* The outcome of _fetch_category(category): kind 0 is the OverpassError of
\* call_overpass, kind k > 0 the records of SearchBodies[k].
OutcomeOf(category, kind) ==
    IF kind = 0 THEN ErrOutcome("OverpassError")
    ELSE OkOutcome(CategoryRecords(SearchBodies[kind], category))

\* The orders in which as_completed may yield n futures.
Orders(n) ==
    {o \in [1..n -> 1..n] : \A i, j \in 1..n : o[i] = o[j] => i = j}

SearchInit ==
    /\ mock_places \in MockDatasets
    /\ ttl_seconds \in 0..MaxTtl
    /\ max_entries \in 1..MaxEntries
    /\ resp = NoResp
    /\ CacheIdle
    /\ SearchRest

SearchTick ==
    /\ now < MaxTime
    /\ now' = now + 1
    /\ UNCHANGED <<cache, ttl_seconds, max_entries, mock_places, resp>>
    /\ UNCHANGED searchFrame

\* A POST /search: _perform_search from its first line to its return or
\* raise.
Search(request, kinds, order, found) ==
    LET cats == KnownCategories(request.categories)
        outcomes == [i \in 1..Len(cats) |-> OutcomeOf(cats[i], kinds[i])]
        done == PerformSearch(cache, request, outcomes, order, found,
                              mock_places, ttl_seconds, max_entries, now)
    IN  /\ cache' = done.cache
        /\ resp' = done.resp
        /\ UNCHANGED <<now, ttl_seconds, max_entries, mock_places>>
        /\ UNCHANGED searchFrame

\* No crawl takes place while settings.enable_website_email_discovery is
\* off.
NothingFound == [w \in Websites |-> None]

SearchAny ==
    \E request \in SearchRequests :
        \E kinds \in [1..Len(request.categories) -> 0..Len(SearchBodies)],
           order \in Orders(Len(request.categories)) :
            Search(request, kinds, order, NothingFound)

SearchNext == SearchAny \/ SearchTick

SpecSearch == SearchInit /\ [][SearchNext]_vars

\* ------------------------------------------------------------- SpecDedupe
\* Records dedupe may be given: two of one name whose coordinates round to
\* the same 6 decimals, a third of that name a little further, a record
\* without coordinates and one of its name at (0.0000003, 0).
DdFirst ==
    [osm_id |-> "node/1", category |-> "school", name |-> "Alpha",
     email |-> None, website |-> "example.org", lat |-> <<12>>,
     lon |-> <<31>>, dist |-> 500]
DdSame ==
    [osm_id |-> "way/2", category |-> "college", name |-> "Alpha",
     email |-> "desk@alpha.org", website |-> None, lat |-> <<14>>,
     lon |-> <<29>>, dist |-> 500]
DdNear ==
    [osm_id |-> "node/6", category |-> "school", name |-> "Alpha",
     email |-> None, website |-> None, lat |-> <<16>>, lon |-> <<31>>,
     dist |-> 500]
DdNoCoords ==
    [osm_id |-> "way/5", category |-> "hotel", name |-> "Gamma",
     email |-> None, website |-> None, lat |-> NoCoord, lon |-> NoCoord,
     dist |-> 0]
DdOrigin ==
    [osm_id |-> "node/7", category |-> "hotel", name |-> "Gamma",
     email |-> "gamma@inn.org", website |-> None, lat |-> <<3>>,
     lon |-> <<0>>, dist |-> 0]
DedupeRecords == {DdFirst, DdSame, DdNear, DdNoCoords, DdOrigin}
DedupeInputs == UNION {[1..n -> DedupeRecords] : n \in 0..MaxDedupeLen}

DedupeInit ==
    /\ arg \in DedupeInputs
    /\ ret = NoRet
    /\ PureRest

\* dedupe(arg) returns.
DedupeCall ==
    /\ ~ret.done
    /\ ret' = [done |-> TRUE, value |-> Dedupe(arg)]
    /\ UNCHANGED arg
    /\ UNCHANGED pureFrame

DedupeNext == DedupeCall

SpecDedupe == DedupeInit /\ [][DedupeNext]_vars

\* ------------------------------------------------------------- SpecFilter
\* A fetched record at d metres from the query point.
RecAt(d) ==
    [osm_id |-> "node/8", category |-> "school", name |-> "Delta",
     email |-> None, website |-> None, lat |-> <<40>>, lon |-> <<50>>,
     dist |-> d]
\* A radius of 1000 m under tolerance factors 1.0 and 1.05: records inside,
\* on each boundary, a metre beyond each boundary, and one without
\* coordinates.
FilterRadii == {1000}
FilterTolerances == {100, 105}
FilterRecordPool ==
    {RecAt(d) : d \in {500, 1000, 1001, 1050, 1051, 1200}}
    \cup {DdNoCoords}
FilterInputs ==
    [records : UNION {[1..n -> FilterRecordPool] : n \in 0..MaxFilterLen},
     radius_m : FilterRadii, pct : FilterTolerances]

FilterInit ==
    /\ arg \in FilterInputs
    /\ ret = NoRet
    /\ PureRest

\* The list comprehension of the distance filter is evaluated.
FilterCall ==
    /\ ~ret.done
    /\ ret' = [done |-> TRUE,
               value |-> FilterRecords(arg.records, arg.radius_m, arg.pct)]
    /\ UNCHANGED arg
    /\ UNCHANGED pureFrame

FilterNext == FilterCall

SpecFilter == FilterInit /\ [][FilterNext]_vars

\* ------------------------------------------- try_discover_email_from_site
\* Text is a sequence of characters, so that "in" and lower() are what they
\* are on str.
ContactAtExampleOrg ==
    <<"c", "o", "n", "t", "a", "c", "t", "@", "e", "x", "a", "m", "p", "l",
      "e", ".", "o", "r", "g">>
InfoAtRealsiteOrg ==
    <<"i", "n", "f", "o", "@", "r", "e", "a", "l", "s", "i", "t", "e", ".",
      "o", "r", "g">>
InfoAtExampleCom ==
    <<"I", "n", "f", "o", "@", "E", "x", "a", "m", "p", "l", "e", ".", "c",
      "o", "m">>
YourAtRealsiteOrg ==
    <<"y", "o", "u", "r", "@", "r", "e", "a", "l", "s", "i", "t", "e", ".",
      "o", "r", "g">>
BadExampleCom ==
    <<"e", "x", "a", "m", "p", "l", "e", ".", "c", "o", "m">>
BadEmailAt ==
    <<"e", "m", "a", "i", "l", "@">>
BadYourAt ==
    <<"y", "o", "u", "r", "@">>
BadInfoAtExample ==
    <<"i", "n", "f", "o", "@", "e", "x", "a", "m", "p", "l", "e">>

\* str.lower on the capitals the addresses above have.
LowerChar(c) == IF c = "I" THEN "i" ELSE IF c = "E" THEN "e" ELSE c
Lower(text) == [i \in 1..Len(text) |-> LowerChar(text[i])]

\* part in text
Contains(text, part) ==
    \E i \in 1..(Len(text) - Len(part) + 1) :
        SubSeq(text, i, i + Len(part) - 1) = part

\* The placeholder fragments of line 168.
BadParts == {BadExampleCom, BadEmailAt, BadYourAt, BadInfoAtExample}
IsPlaceholder(found) == \E bad \in BadParts : Contains(Lower(found), bad)

\* A website is its scheme ("" when it has none) and the rest; host "" is
\* the absent website.  A page is what requests.get comes to: an exception,
\* or a status with the first address EMAIL_REGEX finds in the body (<<>>
\* when it finds none).
NoEmail == <<>>
NoWebsite == [scheme |-> "", host |-> ""]
PageError == [raises |-> TRUE, status |-> 0, first_match |-> NoEmail]
PageStatus(code, m) == [raises |-> FALSE, status |-> code, first_match |-> m]
Paths == <<"", "/contact", "/contact-us">>

\* The candidates: the url, given the scheme http:// if it has neither
\* http:// nor https://, and its /contact and /contact-us pages.
Candidates(url) ==
    LET full == IF url.scheme \in {"http://", "https://"} THEN url
                ELSE [url EXCEPT !.scheme = "http://"]
    IN  [i \in 1..Len(Paths) |->
            [scheme |-> full.scheme, host |-> full.host, path |-> Paths[i]]]

\* requests.get(candidate) on a web that maps the paths of the site to
\* pages; a url without scheme makes requests raise.
GetPage(web, candidate) ==
    IF candidate.scheme = "" THEN PageError ELSE web[candidate.path]

RECURSIVE FirstEmail(_, _)
\* The loop over the candidates: the first page below status 400 whose
\* first address is no placeholder gives the result.
FirstEmail(web, candidates) ==
    IF candidates = <<>> THEN NoEmail
    ELSE LET page == GetPage(web, Head(candidates))
         IN  IF /\ ~page.raises
                /\ page.status < 400
                /\ page.first_match # NoEmail
                /\ ~IsPlaceholder(page.first_match)
             THEN page.first_match
             ELSE FirstEmail(web, Tail(candidates))

\* try_discover_email_from_site(url); NoEmail stands for None.
TryDiscoverEmail(url, web) ==
    IF url.host = "" THEN NoEmail ELSE FirstEmail(web, Candidates(url))

\* One pass of the enrichment loop of fetch_places for a record.
EnrichRecord(rec, web) ==
    IF rec.email = NoEmail /\ rec.website # NoWebsite
    THEN LET email == TryDiscoverEmail(rec.website, web)
         IN  IF email # NoEmail THEN [rec EXCEPT !.email = email] ELSE rec
    ELSE rec

\* -------------------------------------------------------------- SpecCrawl
CrawlWebsites ==
    {NoWebsite, [scheme |-> "", host |-> "example.org"],
     [scheme |-> "https://", host |-> "example.org"]}
\* "desk" stands for an address taken from the tags of the element.
CrawlRecords ==
    [name : {"Alpha"}, email : {NoEmail, <<"d", "e", "s", "k">>},
     website : CrawlWebsites]
CrawlAddresses ==
    {ContactAtExampleOrg, InfoAtRealsiteOrg, InfoAtExampleCom,
     YourAtRealsiteOrg}
CrawlPages ==
    {PageError, PageStatus(404, InfoAtRealsiteOrg), PageStatus(200, NoEmail)}
    \cup {PageStatus(200, m) : m \in CrawlAddresses}
CrawlWebs == [{Paths[i] : i \in 1..Len(Paths)} -> CrawlPages]

CrawlInit ==
    /\ arg \in [record : CrawlRecords, web : CrawlWebs]
    /\ ret = NoRet
    /\ PureRest

\* The enrichment loop handles the record.
CrawlCall ==
    /\ ~ret.done
    /\ ret' = [done |-> TRUE, value |-> EnrichRecord(arg.record, arg.web)]
    /\ UNCHANGED arg
    /\ UNCHANGED pureFrame

CrawlNext == CrawlCall

SpecCrawl == CrawlInit /\ [][CrawlNext]_vars

\* ------------------------------------------------------------- SpecEnrich
\* The end of fetch_places from the distance filter on: filter, dedupe and
\* the enrichment pass, on bounded record lists and both flags.
EnrichmentEnabledEither(caller, config) == caller \/ config
\* enable_email_discovery and settings.enable_website_email_discovery
EnrichmentEnabled(caller, config) == caller /\ config

\* to_enrich: the records without email that have a website.
ToEnrich(records) ==
    SelectSeq(records, LAMBDA r : r.email = None /\ r.website # None)

\* The enrichment pass over the deduplicated records: the records it leaves
\* and the websites try_discover_email_from_site was called with, in order.
EnrichmentPass(records, caller, config, found) ==
    IF EnrichmentEnabled(caller, config)
    THEN [records |-> Enrich(records, found),
          crawled |-> [i \in 1..Len(ToEnrich(records)) |->
                          ToEnrich(records)[i].website]]
    ELSE [records |-> records, crawled |-> <<>>]

\* A second record of the place of DdFirst, with another website.
EnTwin ==
    [osm_id |-> "way/9", category |-> "college", name |-> "Alpha",
     email |-> None, website |-> "alpha.org", lat |-> <<12>>,
     lon |-> <<31>>, dist |-> 500]
\* A record that has both an email and a website.
EnBoth ==
    [osm_id |-> "node/10", category |-> "hotel", name |-> "Beta",
     email |-> "desk@beta.org", website |-> "alpha.org", lat |-> <<60>>,
     lon |-> <<70>>, dist |-> 800]
EnrichRecords == {DdFirst, DdSame, DdNear, DdOrigin, EnTwin, EnBoth}
EnrichWebsites == {"example.org", "alpha.org"}
EnrichInputs ==
    [records : UNION {[1..n -> EnrichRecords] : n \in 0..MaxEnrichLen},
     caller : BOOLEAN, config : BOOLEAN,
     found : [EnrichWebsites -> {None, "info@realsite.org"}]]

EnrichInit ==
    /\ arg \in EnrichInputs
    /\ ret = NoRet
    /\ PureRest

\* fetch_places runs from the distance filter to its return.
EnrichCall ==
    /\ ~ret.done
    /\ LET kept == Dedupe(FilterRecords(arg.records, SearchRadiusM,
                                        TolerancePct))
           pass == EnrichmentPass(kept, arg.caller, arg.config, arg.found)
       IN  ret' = [done |-> TRUE,
                   value |-> [kept |-> kept, records |-> pass.records,
                              crawled |-> pass.crawled]]
    /\ UNCHANGED arg
    /\ UNCHANGED pureFrame

EnrichNext == EnrichCall

SpecEnrich == EnrichInit /\ [][EnrichNext]_vars

\* ------------------------------------------------------- load_mock_places
\* What the path of the settings leads to: no path configured, no file, a
\* file that cannot be read or parsed, JSON that is no list, a list.
MockFiles == {"nopath", "absent", "malformed", "notlist", "list"}
\* What a load makes of it.
LoadedData(file) == IF file = "list" THEN <<MockSchool, MockHospital>> ELSE <<>>
\* Whether a load opens the file.
OpensFile(file) == file \in {"malformed", "notlist", "list"}

NewCall == [pc |-> "check", ret |-> <<>>]

\* --------------------------------------------------------------- SpecMock
MockInit ==
    /\ mock_file \in MockFiles
    /\ mock_cache = NotLoaded
    /\ loaders \in UNION {[1..n -> {NewCall}] : n \in 1..MaxThreads}
    /\ disk_reads = 0
    /\ MockRest

\* Thread i tests _MOCK_CACHE: it returns it if it is set and goes on to
\* load the file if it is not.
MockCheck(i) ==
    /\ loaders[i].pc = "check"
    /\ loaders' = IF mock_cache.loaded
                  THEN [loaders EXCEPT ![i] = [pc |-> "done",
                                               ret |-> mock_cache.data]]
                  ELSE [loaders EXCEPT ![i].pc = "load"]
    /\ UNCHANGED <<mock_file, mock_cache, disk_reads>>
    /\ UNCHANGED mockFrame

\* Thread i resolves the path, reads the file if there is one and assigns
\* _MOCK_CACHE.
MockLoad(i) ==
    /\ loaders[i].pc = "load"
    /\ disk_reads' = IF OpensFile(mock_file) THEN disk_reads + 1
                     ELSE disk_reads
    /\ mock_cache' = [loaded |-> TRUE, data |-> LoadedData(mock_file)]
    /\ loaders' = [loaders EXCEPT ![i].pc = "return"]
    /\ UNCHANGED mock_file
    /\ UNCHANGED mockFrame

\* Thread i returns _MOCK_CACHE.
MockReturn(i) ==
    /\ loaders[i].pc = "return"
    /\ loaders' = [loaders EXCEPT ![i] = [pc |-> "done",
                                          ret |-> mock_cache.data]]
    /\ UNCHANGED <<mock_file, mock_cache, disk_reads>>
    /\ UNCHANGED mockFrame

\* Thread i, its call over, calls load_mock_places again.
MockCallAgain(i) ==
    /\ loaders[i].pc = "done"
    /\ loaders' = [loaders EXCEPT ![i] = NewCall]
    /\ UNCHANGED <<mock_file, mock_cache, disk_reads>>
    /\ UNCHANGED mockFrame

MockCheckAny == \E i \in 1..Len(loaders) : MockCheck(i)
MockLoadAny == \E i \in 1..Len(loaders) : MockLoad(i)
MockReturnAny == \E i \in 1..Len(loaders) : MockReturn(i)
MockCallAgainAny == \E i \in 1..Len(loaders) : MockCallAgain(i)

MockNext ==
    MockCheckAny \/ MockLoadAny \/ MockReturnAny \/ MockCallAgainAny

SpecMock == MockInit /\ [][MockNext]_vars

\* ----------------------------------------------------------- SpecOverpass
OvInit ==
    /\ overpass_urls \in 1..MaxMirrors
    /\ overpass_retry_attempts \in 1..MaxRetry
    /\ ov = [NoCall EXCEPT !.pc = "loop", !.url = 1, !.attempt = 1]
    /\ ovLog = <<>>
    /\ ovLastFailure = None
    /\ ovRequests = 0
    /\ OvRest

\* call_overpass makes one request and handles its outcome.
OvAttempt(outcome) ==
    /\ ov.pc = "loop"
    /\ ov' = AttemptStep(ov, outcome, overpass_urls, overpass_retry_attempts)
    /\ ovLog' = IF ov'.url = ov.url THEN Append(ovLog, outcome) ELSE <<>>
    /\ ovLastFailure' = IF outcome = "ok" THEN ovLastFailure ELSE outcome
    /\ ovRequests' = ovRequests + 1
    /\ UNCHANGED <<overpass_urls, overpass_retry_attempts>>
    /\ UNCHANGED ovFrame

OvAttemptOk == OvAttempt("ok")
OvAttempt429 == OvAttempt("429")
OvAttemptError == \E e \in Exceptions : OvAttempt(e)

OvNext == OvAttemptOk \/ OvAttempt429 \/ OvAttemptError

SpecOverpass == OvInit /\ [][OvNext]_vars

\* Every requests.post returns or raises within settings.http_timeout, and
\* the sleeps between attempts end: an attempt that can be made is made.
SpecOverpassFair == SpecOverpass /\ WF_vars(OvNext)

\* --------------------------------------------------------------- SpecLock
\* The cache calls of the request threads, interleaved.  A call reads time()
\* before it takes _SEARCH_CACHE_LOCK; inside the with block of a put every
\* statement is a step of its own, so that the states between the statements
\* are states of the model.
\* The request threads that call the cache at the same time.
CallerIds == {1, 2}
NoCaller == [pc |-> "idle", key |-> 0, t |-> 0]

CanAcquireAlways(lock) == TRUE
\* with _SEARCH_CACHE_LOCK: the lock can be taken when no thread holds it.
CanAcquire(lock) == lock = 0

\* The payload thread i stores: its key, and expires_at = time() + ttl_seconds
\* from the time() it read.
PayloadOf(i) ==
    [key |-> callers[i].key, label |-> "Davis", results |-> "r1",
     expires_at |-> callers[i].t + ttl_seconds]

LockInit ==
    /\ cache = <<>>
    /\ now = 0
    /\ ttl_seconds \in 0..MaxTtl
    /\ max_entries \in 1..MaxEntries
    /\ lastOp = NoOp
    /\ recency = <<>>
    /\ cache_lock = 0
    /\ callers = [i \in CallerIds |-> NoCaller]
    /\ cache_calls = 0
    /\ LockRest

\* A second passes.
LockTick ==
    /\ now < MaxTime
    /\ now' = now + 1
    /\ UNCHANGED <<cache, ttl_seconds, max_entries, cache_lock, callers,
                   cache_calls>>
    /\ UNCHANGED lockFrame

\* Thread i calls _get_cached_response(key) and reads time().
GetBegin(i, key) ==
    /\ callers[i].pc = "idle"
    /\ cache_calls < MaxCalls
    /\ cache_calls' = cache_calls + 1
    /\ callers' = [callers EXCEPT ![i] =
                      [pc |-> "get_wait", key |-> key, t |-> now]]
    /\ UNCHANGED <<cache, now, ttl_seconds, max_entries, cache_lock>>
    /\ UNCHANGED lockFrame

\* Thread i enters the with block of _get_cached_response.
GetAcquire(i) ==
    /\ callers[i].pc = "get_wait"
    /\ CanAcquire(cache_lock)
    /\ cache_lock' = i
    /\ callers' = [callers EXCEPT ![i].pc = "get_body"]
    /\ UNCHANGED <<cache, now, ttl_seconds, max_entries, cache_calls>>
    /\ UNCHANGED lockFrame

\* Thread i runs the with block of _get_cached_response and leaves it: the
\* lookup, the removal of an expired entry or move_to_end, the return.
GetBody(i) ==
    /\ callers[i].pc = "get_body"
    /\ cache' = GetCachedResponse(cache, callers[i].key, callers[i].t).cache
    /\ cache_lock' = 0
    /\ callers' = [callers EXCEPT ![i] = NoCaller]
    /\ UNCHANGED <<now, ttl_seconds, max_entries, cache_calls>>
    /\ UNCHANGED lockFrame

\* Thread i calls _store_cached_response(key, ...): it returns at once when
\* ttl_seconds <= 0, and reads time() and builds the payload otherwise.
PutBegin(i, key) ==
    /\ callers[i].pc = "idle"
    /\ cache_calls < MaxCalls
    /\ cache_calls' = cache_calls + 1
    /\ callers' = IF ttl_seconds <= 0 THEN callers
                  ELSE [callers EXCEPT ![i] =
                           [pc |-> "put_wait", key |-> key, t |-> now]]
    /\ UNCHANGED <<cache, now, ttl_seconds, max_entries, cache_lock>>
    /\ UNCHANGED lockFrame

\* Thread i enters the with block of _store_cached_response.
PutAcquire(i) ==
    /\ callers[i].pc = "put_wait"
    /\ CanAcquire(cache_lock)
    /\ cache_lock' = i
    /\ callers' = [callers EXCEPT ![i].pc = "put_assign"]
    /\ UNCHANGED <<cache, now, ttl_seconds, max_entries, cache_calls>>
    /\ UNCHANGED lockFrame

\* _SEARCH_CACHE[key] = payload
PutAssign(i) ==
    /\ callers[i].pc = "put_assign"
    /\ cache' = Assign(cache, PayloadOf(i))
    /\ callers' = [callers EXCEPT ![i].pc = "put_move"]
    /\ UNCHANGED <<now, ttl_seconds, max_entries, cache_lock, cache_calls>>
    /\ UNCHANGED lockFrame

\* _SEARCH_CACHE.move_to_end(key)
PutMove(i) ==
    /\ callers[i].pc = "put_move"
    /\ cache' = MoveToEnd(cache, callers[i].key)
    /\ callers' = [callers EXCEPT ![i].pc = "put_evict"]
    /\ UNCHANGED <<now, ttl_seconds, max_entries, cache_lock, cache_calls>>
    /\ UNCHANGED lockFrame

\* The while loop finds len(_SEARCH_CACHE) > max_entries and pops the oldest
\* entry.
PutPop(i) ==
    /\ callers[i].pc = "put_evict"
    /\ Len(cache) > max_entries
    /\ cache' = Tail(cache)
    /\ UNCHANGED <<now, ttl_seconds, max_entries, cache_lock, callers, cache_calls>>
    /\ UNCHANGED lockFrame

\* The while loop ends; thread i leaves the with block and the call returns.
PutRelease(i) ==
    /\ callers[i].pc = "put_evict"
    /\ Len(cache) <= max_entries
    /\ cache_lock' = 0
    /\ callers' = [callers EXCEPT ![i] = NoCaller]
    /\ UNCHANGED <<cache, now, ttl_seconds, max_entries, cache_calls>>
    /\ UNCHANGED lockFrame

GetBeginAny == \E i \in CallerIds, key \in CacheKeys : GetBegin(i, key)
GetAcquireAny == \E i \in CallerIds : GetAcquire(i)
GetBodyAny == \E i \in CallerIds : GetBody(i)
PutBeginAny == \E i \in CallerIds, key \in CacheKeys : PutBegin(i, key)
PutAcquireAny == \E i \in CallerIds : PutAcquire(i)
PutAssignAny == \E i \in CallerIds : PutAssign(i)
PutMoveAny == \E i \in CallerIds : PutMove(i)
PutPopAny == \E i \in CallerIds : PutPop(i)
PutReleaseAny == \E i \in CallerIds : PutRelease(i)

LockNext ==
    \/ LockTick
    \/ GetBeginAny \/ GetAcquireAny \/ GetBodyAny
    \/ PutBeginAny \/ PutAcquireAny \/ PutAssignAny \/ PutMoveAny
    \/ PutPopAny \/ PutReleaseAny

SpecLock == LockInit /\ [][LockNext]_vars

\* ------------------------------------------------------ claims on the key
Abs(x) == IF x < 0 THEN 0 - x ELSE x

Count(s, c) == Cardinality({i \in 1..Len(s) : s[i] = c})
IsPermutation(s, t) == \A c \in KeyCategories : Count(s, c) = Count(t, c)
Range(s) == {s[i] : i \in 1..Len(s)}

\* The two requests are equal but for their category lists.
SameButCategories ==
    reqs[2] = [reqs[1] EXCEPT !.categories = reqs[2].categories]
\* The two requests are equal but for their coordinates.
SameButCoords ==
    reqs[2] = [reqs[1] EXCEPT !.lat = reqs[2].lat, !.lon = reqs[2].lon]

\* x and y have the same sign and the same digits up to the 5th decimal place.
AgreeTo5(x, y) ==
    /\ (x < 0) = (y < 0)
    /\ Abs(x) \div 10 = Abs(y) \div 10
\* ... and their digits after the 5th place lie on the same side of the
\* half-way point, neither on it.
SameSide(x, y) ==
    /\ AgreeTo5(x, y)
    /\ \/ Abs(x) % 10 < 5 /\ Abs(y) % 10 < 5
       \/ Abs(x) % 10 > 5 /\ Abs(y) % 10 > 5

\* C1: two requests that differ only in the order of their categories get the
\* same cache key.
C1_KeyOrderInvariant ==
    (keys # None /\ SameButCategories
        /\ IsPermutation(reqs[1].categories, reqs[2].categories))
    => keys[1] = keys[2]

C1_Witness ==
    /\ keys # None
    /\ SameButCategories
    /\ reqs[1].categories = <<"hotel", "school">>
    /\ reqs[2].categories = <<"school", "hotel">>
    /\ keys[1] = keys[2]

\* C2 as stated: two requests whose coordinates agree in every digit up to
\* the 5th decimal place, and that are otherwise equal, get the same key.
C2_KeyIgnoresLaterDigits ==
    (keys # None /\ SameButCoords
        /\ AgreeTo5(reqs[1].lat, reqs[2].lat)
        /\ AgreeTo5(reqs[1].lon, reqs[2].lon))
    => keys[1] = keys[2]

\* C2 amended: two requests whose coordinates agree up to the 5th decimal
\* place and whose later digits lie on the same side of the half-way point
\* (both round down or both round up) get the same key.
C2_KeySameRounding ==
    (keys # None /\ SameButCoords
        /\ SameSide(reqs[1].lat, reqs[2].lat)
        /\ SameSide(reqs[1].lon, reqs[2].lon))
    => keys[1] = keys[2]

C2_Witness ==
    /\ keys # None
    /\ SameButCoords
    /\ reqs[1].lat = 6 /\ reqs[2].lat = 7
    /\ reqs[1].lon = 4 /\ reqs[2].lon = 0
    /\ keys[1] = keys[2]

\* C3 as stated: two requests whose category lists hold the same set of
\* categories, and that are otherwise equal, get the same cache key.
C3_KeyDedupesCategories ==
    (keys # None /\ SameButCategories
        /\ Range(reqs[1].categories) = Range(reqs[2].categories))
    => keys[1] = keys[2]

\* ---------------------------------------------------- claims on the cache
\* C4: an entry stored at time t with ttl > 0 expires at t + ttl; a get for
\* its key at a later time returns a miss and removes the entry; a get never
\* changes the expiry time of an entry it leaves in the cache.
C4_TtlExpiry ==
    [][\A k \in CacheKeys :
        /\ (lastOp'.op = "store" /\ lastOp'.key = k /\ ttl_seconds > 0)
            => (HasKey(cache', k)
                /\ EntryOf(cache', k).expires_at = now + ttl_seconds)
        /\ (lastOp'.op = "get" /\ lastOp'.key = k /\ HasKey(cache, k)
                /\ now > EntryOf(cache, k).expires_at)
            => (~lastOp'.hit /\ ~HasKey(cache', k))
        /\ (lastOp'.op = "get" /\ HasKey(cache, k) /\ HasKey(cache', k))
            => EntryOf(cache', k).expires_at = EntryOf(cache, k).expires_at
      ]_vars

\* A get has just found its entry expired and removed it.
C4_Witness ==
    /\ lastOp.op = "get"
    /\ lastOp.expired
    /\ ~lastOp.hit
    /\ ~HasKey(cache, lastOp.key)
    /\ ttl_seconds > 0

\* C5: a put of a further key into a cache holding max_entries entries
\* removes exactly one entry, the one whose last get-hit or put is the
\* oldest; a get-hit makes its entry the most recently used one, and with
\* max_entries >= 2 the most recently used entry survives the next eviction.
C5_LruEviction ==
    [][/\ (lastOp'.op = "store" /\ ttl_seconds > 0
            /\ ~HasKey(cache, lastOp'.key) /\ Len(cache) = max_entries)
          => /\ KeysOf(cache') =
                    (KeysOf(cache) \ {Head(recency)}) \cup {lastOp'.key}
             /\ Len(cache') = max_entries
             /\ (max_entries >= 2
                    => recency[Len(recency)] \in KeysOf(cache'))
       /\ (lastOp'.op = "get" /\ lastOp'.hit)
          => /\ cache'[Len(cache')].key = lastOp'.key
             /\ recency'[Len(recency')] = lastOp'.key
             /\ KeysOf(cache') = KeysOf(cache)
      ]_vars

\* A put has just evicted an entry that was stored after an entry that is
\* still cached: a get-hit protected the older one.
C5_Witness ==
    /\ lastOp.op = "store"
    /\ Len(lastOp.evicted) = 1
    /\ Len(cache) = max_entries
    /\ \E i \in 1..Len(cache) :
          /\ cache[i].key # lastOp.key
          /\ cache[i].expires_at < lastOp.evicted[1].expires_at

\* ------------------------------------------------ claims on deep copying
\* C6: whatever callers do to a list (or a record of it) they passed to a put
\* or received from a get, each cached entry keeps the value its put stored
\* and a get returns that value; no object of a cached entry is reachable by
\* a caller, and no two lists returned by gets share an object.
C6_DeepCopyIsolation ==
    /\ \A i \in 1..Len(cache) :
          ValueOf(heap, cache[i].results) = stored[cache[i].key]
    /\ (lastOp.op = "get" /\ lastOp.hit)
          => ValueOf(heap, lastOp.results) = stored[lastOp.key]
    /\ \A i \in 1..Len(cache) : \A x \in held :
          Reach(heap, cache[i].results) \cap Reach(heap, x.ref) = {}
    /\ \A x \in held : \A y \in held :
          (x # y /\ (x.src = "get" \/ y.src = "get"))
          => Reach(heap, x.ref) \cap Reach(heap, y.ref) = {}

\* A get has just returned the stored value although an earlier reader of
\* the key has changed the copy it was given.
C6_Witness ==
    /\ lastOp.op = "get"
    /\ lastOp.hit
    /\ ValueOf(heap, lastOp.results) = stored[lastOp.key]
    /\ \E x \in held :
          /\ x.src = "get"
          /\ x.key = lastOp.key
          /\ x.ref # lastOp.results
          /\ ValueOf(heap, x.ref) # stored[lastOp.key]

\* ------------------------------------------------- claims on call_overpass
\* C8: when a mirror answers 429 on its first k attempts (k below
\* retry_attempts) and a well-formed response on attempt k + 1, call_overpass
\* returns that response; it raises OverpassError exactly when every attempt
\* on every mirror has failed.
C8_RetryOn429 ==
    /\ \A k \in 0..(overpass_retry_attempts - 1) :
          (/\ Len(ovLog) = k + 1
           /\ \A i \in 1..k : ovLog[i] = "429"
           /\ ovLog[k + 1] = "ok")
          => (ov.pc = "returned" /\ ov.result = <<"response", ov.url, k + 1>>)
    /\ (ov.pc = "raised")
          <=> (/\ ovRequests = overpass_urls * overpass_retry_attempts
               /\ ov.pc # "returned")

\* The mirror answered 429 three times and then well: the fourth response is
\* returned.
C8_Witness ==
    /\ ov.pc = "returned"
    /\ ovLog = <<"429", "429", "429", "ok">>
    /\ ov.result = <<"response", ov.url, 4>>

\* C9 as stated: when every mirror has used up its attempts, the error raised
\* carries the last underlying error, a 429 response included.
C9_CarriesLastError ==
    (ov.pc = "raised") => (ov.raised = ovLastFailure)

\* ------------------------------------------------- claims on fetch_places
\* Some category fetch of the finished fetch_places ended with an exception.
SomeFetchFailed ==
    \E i \in 1..Len(tasks) : tasks[i].state = "done" /\ ~tasks[i].outcome.ok

\* C7: when the fetch of any one category fails, fetch_places raises
\* OverpassError and returns no record list, in whatever order the category
\* fetches complete and are yielded, other categories having succeeded before
\* the failure or not.
C7_FanOutAllOrNothing ==
    (fp.pc = "done" /\ SomeFetchFailed)
    => (fp.raised = "OverpassError" /\ fp.ret = None)

\* Of three categories the second failed; the first and the third had
\* delivered records, some of them collected before the failure was seen.
C7_Witness ==
    /\ fp.pc = "done"
    /\ Len(tasks) = 3
    /\ tasks[1].outcome.ok /\ tasks[1].outcome.records # <<>>
    /\ ~tasks[2].outcome.ok /\ tasks[2].state = "done"
    /\ tasks[3].outcome.ok /\ tasks[3].outcome.records # <<>>
    /\ fp.records # <<>>
    /\ fp.raised = "OverpassError"
    /\ fp.ret = None

\* ------------------------------------------------ claims on the search
IsMock(rec) ==
    \E i \in 1..Len(mock_places) : mock_places[i].osm_id = rec.osm_id
\* The fallback dataset has a record of a category of the last search.
HasMatch ==
    \E i \in 1..Len(mock_places) :
        InList(mock_places[i].category, resp.categories)

\* The results of the last search are all live or all fallback records.
Unmixed ==
    \/ \A i \in 1..Len(resp.results) : IsMock(resp.results[i])
    \/ \A i \in 1..Len(resp.results) : ~IsMock(resp.results[i])

\* Live results leave no category out: every category fetch succeeded, and
\* every record it delivered within the radius is among the results, itself
\* or as its duplicate.
AllCategories ==
    resp.origin = "live" =>
        \A k \in 1..Len(resp.outcomes) :
            /\ resp.outcomes[k].ok
            /\ \A j \in 1..Len(resp.outcomes[k].records) :
                  WithinRadius(resp.outcomes[k].records[j], SearchRadiusM)
                  => \E i \in 1..Len(resp.results) :
                        DedupeKey(resp.results[i]) =
                            DedupeKey(resp.outcomes[k].records[j])
\* Fallback results are the fallback records of all requested categories.
AllFallback ==
    resp.origin = "fallback" =>
        /\ \A i \in 1..Len(resp.results) :
              /\ IsMock(resp.results[i])
              /\ InList(resp.results[i].category, resp.categories)
        /\ \A i \in 1..Len(mock_places) :
              InList(mock_places[i].category, resp.categories)
              => InList(mock_places[i], resp.results)

\* C10 as stated: when the live fetch fails the search succeeds with
\* fallback data if the fallback dataset has data, and fails with 503 only
\* if the dataset has none; results are never mixed or partial.
C10_FallbackIfAnyData ==
    /\ (resp.failed /\ mock_places # <<>>)
        => (resp.status = 200 /\ resp.origin = "fallback")
    /\ resp.status = 503 => mock_places = <<>>
    /\ Unmixed /\ AllCategories /\ AllFallback

\* C10 amended: when the live fetch fails the search succeeds with fallback
\* data if the fallback dataset has a record of a requested category, and
\* fails with 503 if and only if it has none; results are never a mixture
\* of live and fallback records nor the records of only some categories.
C10_FallbackIfMatchingData ==
    /\ (resp.failed /\ HasMatch)
        => (resp.status = 200 /\ resp.origin = "fallback"
            /\ resp.results # <<>>)
    /\ (resp.failed /\ ~HasMatch) => resp.status = 503
    /\ resp.status = 503 => (resp.failed /\ ~HasMatch)
    /\ Unmixed /\ AllCategories /\ AllFallback

\* The fetch of one category failed after the other had delivered records;
\* the search answered with the fallback records of its categories alone.
C10_Witness ==
    /\ resp.failed
    /\ resp.status = 200
    /\ resp.origin = "fallback"
    /\ mock_places = <<MockSchool, MockHospital>>
    /\ resp.results = <<MockSchool>>
    /\ \E k \in 1..Len(resp.outcomes) :
          resp.outcomes[k].ok /\ resp.outcomes[k].records # <<>>

\* ------------------------------------------ claims on the returned records
\* The record has its name and both coordinates.
HasNameAndCoords(rec) ==
    rec.name # None /\ rec.lat # NoCoord /\ rec.lon # NoCoord

\* C11 as stated: every record a search returns has name, lat and lon, on
\* every path that produces results (live fetch, cache hit, fallback data).
C11_ReturnedRecordsComplete ==
    resp.status = 200
    => \A i \in 1..Len(resp.results) : HasNameAndCoords(resp.results[i])

\* ------------------------------------------------------- claims on dedupe
\* The identity key of a record: its name and its coordinates (units of
\* 10^-7 degree) rounded to 6 decimals, an absent coordinate counted as 0.
RoundedCoord(x) == IF x = NoCoord THEN 0 ELSE (x[1] + 5) \div 10
IdentityKey(rec) == <<rec.name, RoundedCoord(rec.lat), RoundedCoord(rec.lon)>>

\* The positions of the input whose record is the first of its key.
FirstSeen ==
    {i \in 1..Len(arg) :
        \A j \in 1..(i - 1) : IdentityKey(arg[j]) # IdentityKey(arg[i])}
\* The k-th of these positions.
NthFirstSeen(k) ==
    CHOOSE i \in FirstSeen : Cardinality({j \in FirstSeen : j <= i}) = k

\* C12: dedupe returns the first record of each identity key, unchanged, in
\* first-seen order, and no two records of its result share a key.
C12_DedupeFirstSeen ==
    ret.done =>
        /\ Len(ret.value) = Cardinality(FirstSeen)
        /\ \A k \in 1..Len(ret.value) : ret.value[k] = arg[NthFirstSeen(k)]
        /\ \A k, l \in 1..Len(ret.value) :
              IdentityKey(ret.value[k]) = IdentityKey(ret.value[l]) => k = l

\* Two records of one key with different fields around a record of another
\* key: the first of the two is kept, before the other record.
C12_Witness ==
    /\ ret.done
    /\ arg = <<DdFirst, DdNoCoords, DdSame>>
    /\ ret.value = <<DdFirst, DdNoCoords>>

\* -------------------------------------------- claims on the distance filter
\* The positions of the records the filter is to keep.
ToKeep ==
    {i \in 1..Len(arg.records) :
        /\ arg.records[i].lat # NoCoord
        /\ arg.records[i].lon # NoCoord
        /\ arg.records[i].dist * 100 <= arg.radius_m * arg.pct}
NthToKeep(k) == CHOOSE i \in ToKeep : Cardinality({j \in ToKeep : j <= i}) = k

\* C13: the distance filter keeps a record iff both its coordinates are
\* present and its distance d satisfies d <= radius_m * tolerance: a record
\* at exactly radius_m * tolerance is kept, one a metre beyond is dropped.
C13_DistanceFilter ==
    ret.done =>
        /\ Len(ret.value) = Cardinality(ToKeep)
        /\ \A k \in 1..Len(ret.value) : ret.value[k] = arg.records[NthToKeep(k)]
        /\ \A i \in 1..Len(arg.records) :
              /\ arg.records[i].dist * 100 = arg.radius_m * arg.pct
                    /\ arg.records[i].lat # NoCoord
                    /\ arg.records[i].lon # NoCoord
                 => InList(arg.records[i], ret.value)
              /\ arg.records[i].dist * 100 = (arg.radius_m * arg.pct) + 100
                 => ~InList(arg.records[i], ret.value)

\* Radius 1000 and tolerance 1.05: the record at 1050 m is kept, the one at
\* 1051 m dropped, the one at 500 m kept.
C13_Witness ==
    /\ ret.done
    /\ arg.pct = 105
    /\ arg.records = <<RecAt(1050), RecAt(1051), RecAt(500)>>
    /\ ret.value = <<RecAt(1050), RecAt(500)>>

\* --------------------------------------------------- claims on enrichment
\* C14 as stated: a record with website "example.org" (no scheme) and no
\* email, whose homepage holds "contact@example.org" and whose /contact page
\* holds "info@realsite.org", ends with the email "info@realsite.org".
C14_PlaceholderHomepageSkipped ==
    (/\ ret.done
     /\ arg.record.email = NoEmail
     /\ arg.record.website = [scheme |-> "", host |-> "example.org"]
     /\ arg.web[""] = PageStatus(200, ContactAtExampleOrg)
     /\ arg.web["/contact"] = PageStatus(200, InfoAtRealsiteOrg))
    => ret.value.email = InfoAtRealsiteOrg

\* ------------------------------------------- claims on the disabled cache
\* C15: _store_cached_response with ttl_seconds <= 0 changes nothing: the
\* entries, their payloads and expiry times and their order stay as they
\* were (no insert, no replacement, no eviction).
C15_PutWithoutTtlIsNoOp ==
    [][lastOp'.op = "store_off" => cache' = cache]_vars

\* A full cache of two or more entries has been offered a further key with
\* ttl <= 0.
C15_Witness ==
    /\ lastOp.op = "store_off"
    /\ Len(cache) = max_entries
    /\ max_entries >= 2
    /\ ~HasKey(cache, lastOp.key)

\* ------------------------------------------------ claims on the fan-out
\* C16 as stated: once any category fetch has failed, no category fetch that
\* had not yet started is started afterwards.
C16_NoStartAfterFailure ==
    [][SomeFetchFailed
       => \A j \in 1..Len(tasks) :
             tasks[j].state = "pending" => tasks'[j].state = "pending"]_vars

RECURSIVE InCategoryOrder(_)
\* The records of the first n category fetches, first category first, each
\* category's records in the order the mirror returned them.
InCategoryOrder(n) ==
    IF n = 0 THEN <<>>
    ELSE InCategoryOrder(n - 1) \o tasks[n].outcome.records

\* C17 as stated: when every category fetch has succeeded, the concatenated
\* record list is ordered first-category-first, in whatever order the
\* fetches completed.
C17_FirstCategoryFirst ==
    (fp.pc = "done" /\ fp.raised = None /\ fp.categories # <<>>)
    => fp.records = InCategoryOrder(Len(tasks))

\* ------------------------------------------ claims on the order of mirrors
\* C18: call_overpass contacts the mirrors in list order, mirror i + 1 only
\* after retry_attempts requests to mirror i; the first well-formed response
\* ends it with no further request; it ends after at most
\* mirrors * retry_attempts requests with one whole response or with
\* OverpassError.
C18_MirrorOrderAndShortCircuit ==
    /\ [](ov.pc = "loop" =>
            /\ ov.url \in 1..overpass_urls
            /\ ov.attempt \in 1..overpass_retry_attempts
            /\ ovRequests =
                 ((ov.url - 1) * overpass_retry_attempts) + (ov.attempt - 1))
    /\ [](ovRequests <= overpass_urls * overpass_retry_attempts)
    /\ [][/\ ov.pc = "loop"
          /\ ovRequests' = ovRequests + 1
          /\ ov'.url \in {ov.url, ov.url + 1}
          /\ ov'.url = ov.url + 1
                => (ov.attempt = overpass_retry_attempts /\ ov'.attempt = 1)
          /\ Len(ovLog') > 0 /\ ovLog'[Len(ovLog')] = "ok"
                => (ov'.pc = "returned"
                    /\ ov'.result = <<"response", ov.url, ov.attempt>>)]_vars
    /\ [](ov.pc = "returned" => (ov.result # None /\ ov.raised = None))
    /\ [](ov.pc = "raised" => ov.result = None)
    /\ <>(ov.pc \in {"returned", "raised"})

\* The first mirror failed on all of its attempts, two or more; the first
\* answer of the second mirror was returned.
C18_Witness ==
    /\ ov.pc = "returned"
    /\ overpass_retry_attempts >= 2
    /\ ov.url = 2
    /\ ovRequests = overpass_retry_attempts + 1

\* ------------------------------------------- claims on the cache entries
\* C19 as stated: an entry is created or replaced only after a successful
\* live fetch for its key: a search whose mirror fetches failed, ended in
\* fallback data or in a 503, leaves no entry the cache did not hold.
C19_EntryOnlyAfterLiveFetch ==
    [][(resp'.failed /\ now' = now)
       => \A i \in 1..Len(cache') : InList(cache'[i], cache)]_vars

\* ------------------------------------------- claims on the fallback store
\* C20 as stated: over any number of calls of load_mock_places, concurrent
\* ones included, the dataset file is read from disk once at most (once, if
\* a call has returned and there is a file), and every call returns what
\* that load made of the file: the empty list if it is absent, unreadable or
\* malformed.
C20_LoadsOnce ==
    /\ disk_reads <= 1
    /\ \A i \in 1..Len(loaders) :
          loaders[i].pc = "done"
          => /\ loaders[i].ret = LoadedData(mock_file)
             /\ OpensFile(mock_file) => disk_reads = 1

\* -------------------------------------- claims on the cache under threads
\* No key has two entries.
KeysDistinct ==
    \A i, j \in 1..Len(cache) : cache[i].key = cache[j].key => i = j

\* C21: with a fixed max_entries >= 1, when a _store_cached_response call
\* completes the cache holds at most max_entries entries, under every
\* interleaving of the gets and puts of the threads; so it does whenever no
\* thread is inside a with block, and each key has one entry at most.
C21_CacheBound ==
    /\ [](cache_lock = 0 => Len(cache) <= max_entries)
    /\ []KeysDistinct
    /\ [][\A i \in CallerIds :
            (callers[i].pc = "put_evict" /\ callers'[i].pc = "idle")
            => Len(cache') <= max_entries]_vars

\* The puts completed so far have filled the cache, no thread is inside a
\* with block, and a thread waits for the lock with a put of a further key.
C21_Witness ==
    /\ cache_lock = 0
    /\ Len(cache) = max_entries
    /\ max_entries >= 2
    /\ callers[1].pc = "idle"
    /\ callers[2].pc = "put_wait"
    /\ ~HasKey(cache, callers[2].key)

\* ------------------------------------------------ claims on the cache hit
\* The cache key of a search for the location "Davis" with the given
\* categories (the searches differ in nothing else that enters the key):
\* its coordinates 12 and 31 round to 1 and 3 at the 5th decimal place.
SearchKey(categories) ==
    <<1, 3, SearchRadiusM, SortedCats(categories), FALSE>>

\* The cache holds an entry for key that has not expired at the clock's time.
Unexpired(key) ==
    \E i \in 1..Len(cache) : cache[i].key = key /\ cache[i].expires_at >= now

\* A search that finds an unexpired entry answers from it: no category fetch
\* (so no mirror request and no crawl), the label and records of the entry,
\* and no put: every entry is as it was.
HitAnswersFromEntry(key) ==
    Unexpired(key) =>
        /\ resp'.status = 200
        /\ resp'.origin = "cache"
        /\ resp'.outcomes = <<>>
        /\ ~resp'.failed
        /\ \E i \in 1..Len(cache) :
              /\ cache[i].key = key
              /\ resp'.label = cache[i].label
              /\ resp'.results = cache[i].results
        /\ Len(cache') = Len(cache)
        /\ \A i \in 1..Len(cache) : InList(cache[i], cache')

\* A search that finds none runs the category fetches, and what it returns
\* is in the cache when it returns, as the most recent entry (when stores
\* holds).
MissFetchesAndStores(key, stores) ==
    ~Unexpired(key) =>
        /\ resp'.origin # "cache"
        /\ Len(resp'.outcomes) = Len(resp'.categories)
        /\ (resp'.status = 200 /\ stores)
           => /\ cache' # <<>>
              /\ cache'[Len(cache')] =
                    [key |-> key, label |-> resp'.label,
                     results |-> resp'.results,
                     expires_at |-> now + ttl_seconds]

\* C22 as stated: a search that finds an unexpired entry for its key makes
\* no mirror request, no crawl and no put and returns the label and records
\* the entry was stored with; only on a miss are the category fetches run,
\* and the result is stored in the cache before it is returned.
C22_HitBypassesFetch ==
    [][(now' = now /\ resp'.status \in {200, 503})
       => /\ HitAnswersFromEntry(SearchKey(resp'.categories))
          /\ MissFetchesAndStores(SearchKey(resp'.categories), TRUE)]_vars

\* C22 amended: as above, the result of a miss being stored before it is
\* returned when search_cache_ttl_seconds > 0; with a ttl that is not
\* positive the put stores nothing.
C22_HitBypassesFetchWithTtl ==
    [][(now' = now /\ resp'.status \in {200, 503})
       => /\ HitAnswersFromEntry(SearchKey(resp'.categories))
          /\ MissFetchesAndStores(SearchKey(resp'.categories),
                                  ttl_seconds > 0)
          /\ (ttl_seconds <= 0 => cache' = cache)]_vars

\* A search has just been answered from the entry an earlier search stored,
\* while the cache holds the entry of another search too.
C22_Witness ==
    /\ resp.status = 200
    /\ resp.origin = "cache"
    /\ resp.results # <<>>
    /\ Len(cache) = 2
    /\ cache[2].key = SearchKey(resp.categories)
    /\ cache[2].results = resp.results
    /\ cache[2].label = resp.label

\* ------------------------------------------- claims on the enrichment pass
\* The record may be enriched: it has a website and no email.
Enrichable(rec) == rec.email = None /\ rec.website # None

\* C23: enrichment runs only when the caller's flag and the configuration
\* flag are both true; when either is false no crawl request is made and no
\* record is changed; when it runs it works on the deduplicated set, changes
\* only the email field and only of records that had a website and no
\* email: an email already present is never overwritten, and no record is
\* added, removed or reordered.
C23_EnrichmentGateAndFrame ==
    ret.done =>
        LET kept == ret.value.kept
            out == ret.value.records
            crawled == ret.value.crawled
        IN  /\ ~(arg.caller /\ arg.config) => (crawled = <<>> /\ out = kept)
            /\ Len(out) = Len(kept)
            /\ \A i \in 1..Len(kept) :
                  \/ out[i] = kept[i]
                  \/ /\ Enrichable(kept[i])
                     /\ out[i].email # None
                     /\ out[i] = [kept[i] EXCEPT !.email = out[i].email]
                     /\ InList(kept[i].website, crawled)
            /\ \A i \in 1..Len(kept) :
                  kept[i].email # None => out[i].email = kept[i].email
            /\ \A j \in 1..Len(crawled) :
                  \E i \in 1..Len(kept) :
                      Enrichable(kept[i]) /\ kept[i].website = crawled[j]

\* Both flags are on: the record with a website and no email got the email
\* found on its site, the record that had an email kept it, and the site of
\* the duplicate that dedupe had dropped was not crawled.
C23_Witness ==
    /\ ret.done
    /\ arg.caller /\ arg.config
    /\ arg.records = <<DdFirst, EnTwin, EnBoth>>
    /\ arg.found["example.org"] = "info@realsite.org"
    /\ ret.value.records =
          <<[DdFirst EXCEPT !.email = "info@realsite.org"], EnBoth>>
    /\ ret.value.crawled = <<"example.org">>

\* ------------------------------------------ claims on the worker pool
\* The category fetches in flight are at most min(max_parallel, number of
\* categories).
FanOutBounded ==
    /\ Cardinality(Running) <= max_parallel
    /\ Cardinality(Running) <= Len(fp.categories)

\* The tasks that have fetched category c.
FetchedBy(c) ==
    {i \in 1..Len(tasks) : tasks[i].state = "done" /\ fp.categories[i] = c}

\* When fetch_places has ended, every category was fetched by one task.
OneTaskPerCategory ==
    fp.pc = "done" =>
        \A k \in 1..Len(fp.categories) :
            Cardinality(FetchedBy(fp.categories[k])) = 1

\* C24 as stated: during a coordinate search the number of category fetches
\* in flight at the same time never exceeds min(max_parallel_category_requests,
\* number of requested categories), and each requested category is fetched
\* by exactly one task.
C24_BoundedFanOut == FanOutBounded /\ OneTaskPerCategory

\* ------------------------------------------------- claims on determinism
\* What fetch_places returns for the outcomes the category fetches had, when
\* as_completed yields them in the given order (no enrichment).
ReturnedFor(order) ==
    FetchPlaces(fp.categories, [i \in 1..Len(tasks) |-> tasks[i].outcome],
                order, SearchRadiusM, FALSE, NothingFound).ret

\* C25 as stated: for fixed mirror responses per category, the list a
\* successful fetch_places returns (the records that survive deduplication,
\* their fields and their order) is the same for every order in which the
\* category fetches complete.
C25_SameForEveryOrder ==
    (fp.pc = "done" /\ fp.raised = None /\ fp.categories # <<>> /\ ~enrich)
    => \A order \in Orders(Len(tasks)) : ReturnedFor(order) = fp.ret

\* --------------------------------------- claims on the returned records
\* The record lies within radius_m * distance_tolerance_factor of the
\* geocoded point and has one of the categories of the search.
NearAndRequested(rec) ==
    /\ rec.lat # NoCoord
    /\ rec.lon # NoCoord
    /\ rec.dist * 100 <= SearchRadiusM * TolerancePct
    /\ InList(rec.category, resp.categories)

\* C26 as stated: every record a coordinate search returns lies within
\* r * distance_tolerance_factor of the geocoded point and has one of the
\* requested categories, on every path: live fetch, cache hit and fallback
\* data.
C26_ReturnedNearAndRequested ==
    resp.status = 200
    => \A i \in 1..Len(resp.results) : NearAndRequested(resp.results[i])

====
